---------------------------- MODULE Spec2Model ----------------------------
(***************************************************************************)
(* tts-overlay (src/src/main.rs): a borderless text box that, on Enter,    *)
(* sends the text to a cloud TTS endpoint from a background thread, plays  *)
(* the returned WAV on the configured output device and lets the process   *)
(* exit once a oneshot channel has been written.                           *)
(*                                                                         *)
(* Three execution contexts are modelled:                                  *)
(*   main    - main(): run_native (the UI loop), then recv() on the        *)
(*             oneshot channel, then return;                               *)
(*   UI      - OverlayApp::update, one call per frame while the window is  *)
(*             alive;                                                      *)
(*   worker  - the closure given to thread::spawn, one action per          *)
(*             fallible call of the nested if-let chain.                   *)
(* Time is a clock in milliseconds that advances in steps of TickMs.       *)
(***************************************************************************)
EXTENDS Integers, Sequences, FiniteSets

\* ------------------------------------------------------------------ bounds
TickMs == 500          \* granularity of the modelled clock (ms)
MaxDevices == 2        \* longest enumerated device list
MaxCloseCmds == 2      \* frames that send ViewportCommand::Close, at most

\* ------------------------------------------------------- program constants
GraceMs == 500         \* Duration::from_millis(500) in OverlayApp::new
MarginMs == 500        \* Duration::from_millis(500) added to the sleep

\* --------------------------------------------------------------- input sets
Texts == {"", "Hello"}

\* device names and the configured output_device, as character sequences
Names == { <<"S">>, <<"U", "S">> }

\* a device of the host: name() is Ok(name) or Err
Devices == [nameOk : {TRUE}, name : Names] \cup { [nameOk |-> FALSE, name |-> <<>>] }

SeqsUpTo(S, n) == UNION { [1..k -> S] : k \in 0..n }

DeviceLists == SeqsUpTo(Devices, MaxDevices)

\* total durations a WAV header can yield (ms)
Durations == {0, 1000}

HttpStatuses == {200, 500}

\* What the provider's response body is, as far as the pipeline looks:
\*   json   - the body parses as a JSON object of strings
\*   audio  - that object has the key "audioContent"
\*   b64    - its value is valid standard base64
\*   wav    - the decoded bytes are a WAV rodio accepts
\*   hasDur - the decoder reports Some(total_duration); dur is that duration
Body(j, a, b, w, h, d) ==
    [json |-> j, audio |-> a, b64 |-> b, wav |-> w, hasDur |-> h, dur |-> d]

Bodies ==
    { Body(FALSE, FALSE, FALSE, FALSE, FALSE, 0),
      Body(TRUE, FALSE, FALSE, FALSE, FALSE, 0),
      Body(TRUE, TRUE, FALSE, FALSE, FALSE, 0),
      Body(TRUE, TRUE, TRUE, FALSE, FALSE, 0),
      Body(TRUE, TRUE, TRUE, TRUE, FALSE, 0) }
    \cup { Body(TRUE, TRUE, TRUE, TRUE, TRUE, d) : d \in Durations }

\* a response that send() returned as Ok
Responses == [status : HttpStatuses, body : Bodies]

NoResponse == [status |-> 0, body |-> Body(FALSE, FALSE, FALSE, FALSE, FALSE, 0)]

VARIABLES
    now,             \* Instant::now(), ms since OverlayApp::new
    mainPc,          \* main(): "run_native" | "recv" | "exited" | "failed"
    text,            \* OverlayApp.text
    grace_period,    \* OverlayApp.grace_period
    output_device,   \* Configuration.output_device
    waiter,          \* OverlayApp.waiter: "Some" | "None"
    focus_requested, \* the latest frame called textbox.request_focus()
    closeCmds,       \* ViewportCommand::Close commands sent so far
    chan,            \* the oneshot channel: "empty" | "sent" | "closed"
    sends,           \* calls of Sender::send so far
    sentBy,          \* who called send: subset of {"ui", "worker"}
    spawned,         \* threads spawned so far
    workerPc,        \* position of the worker closure
    reqText,         \* the closure's captured text
    resp,            \* what send() returned (NoResponse before, or on Err)
    devices,         \* what host.output_devices() yielded
    selected,        \* index in devices of the device the loop stopped at, or 0
    streams,         \* output streams opened so far
    streamOpen,      \* the OutputStream of the if-let is alive
    played,          \* play_raw accepted the samples
    sleepFrom,       \* the clock when sleep() was called
    ops,             \* the calls the worker has made, in order
    logged           \* records the program wrote to the logger of line 21

uiVars == <<text, waiter, focus_requested, closeCmds>>
chanVars == <<chan, sends, sentBy>>
workerVars == <<workerPc, reqText, resp, devices, selected, streams, streamOpen,
                played, sleepFrom, ops>>
vars == <<now, mainPc, grace_period, output_device, uiVars, chanVars, spawned, workerVars,
          logged>>

\* ------------------------------------------------------------- OverlayApp::new
Init ==
    /\ now = 0
    /\ mainPc = "run_native"
    /\ text = ""
    /\ grace_period = now + GraceMs
    /\ output_device \in Names
    /\ waiter = "Some"
    /\ focus_requested = FALSE
    /\ closeCmds = 0
    /\ chan = "empty"
    /\ sends = 0
    /\ sentBy = {}
    /\ spawned = 0
    /\ workerPc = "idle"
    /\ reqText = ""
    /\ resp = NoResponse
    /\ devices = <<>>
    /\ selected = 0
    /\ streams = 0
    /\ streamOpen = FALSE
    /\ played = FALSE
    /\ sleepFrom = 0
    /\ ops = <<>>
    /\ logged = <<>>


\* ----------------------------------------------------------------- mutants
\* plausible slips of the code, each used to show that a claim's formula
\* depends on the definition it replaces

\* send() that loses the message
SendLost(who) == UNCHANGED <<chan, sends, sentBy>>

\* try_recv() in place of recv(): main does not wait
RecvNeverBlocks == TRUE

\* the grace period is not consulted
ShouldDecideNoGrace(focus) == ~focus

\* the sender is cloned out of the Option instead of taken
WaiterNotTaken == "Some"

\* a failed stage returns from the closure without reaching line 160
OnFailureSkipsSignal == "done"

\* ------------------------------------------------------- the oneshot channel
\* Sender::send(()) consumes the sender and stores the message
Send(who) ==
    /\ chan' = "sent"
    /\ sends' = sends + 1
    /\ sentBy' = sentBy \cup {who}

\* Receiver::recv() blocks until a message is there or the sender is dropped
RecvReady == chan # "empty"

\* ------------------------------------------------------- OverlayApp::update
\* the if of line 91: the text box lacks focus and the grace period is over
ShouldDecide(focus) == ~focus /\ grace_period <= now

\* Option::take leaves None behind
WaiterAfterTake == "None"

\* mutant: the text is cloned before the text box has taken this frame's input
SpawnStaleText(t) ==
    /\ spawned' = spawned + 1
    /\ workerPc' = "send"
    /\ reqText' = text
    /\ UNCHANGED <<resp, devices, selected, streams, streamOpen, played, sleepFrom, ops>>

\* thread::spawn(move || ...) with the clones of text and config
Spawn(t) ==
    /\ spawned' = spawned + 1
    /\ workerPc' = "send"
    /\ reqText' = t
    /\ UNCHANGED <<resp, devices, selected, streams, streamOpen, played, sleepFrom, ops>>

\* focus held or grace period running: the else of line 167
UpdateHold(focus, enter, t) ==
    /\ ~ShouldDecide(focus)
    /\ focus_requested' = TRUE
    /\ UNCHANGED <<waiter, closeCmds, chanVars, spawned, workerVars>>

\* Enter pressed, the sender still there: lines 92-162
UpdateTrigger(focus, enter, t) ==
    /\ ShouldDecide(focus)
    /\ enter
    /\ waiter = "Some"
    /\ waiter' = WaiterAfterTake
    /\ Spawn(t)
    /\ closeCmds' = closeCmds + 1
    /\ focus_requested' = FALSE
    /\ UNCHANGED chanVars

\* no Enter, the sender still there: lines 163-165
UpdateAbandon(focus, enter, t) ==
    /\ ShouldDecide(focus)
    /\ ~enter
    /\ waiter = "Some"
    /\ waiter' = WaiterAfterTake
    /\ Send("ui")
    /\ closeCmds' = closeCmds + 1
    /\ focus_requested' = FALSE
    /\ UNCHANGED <<spawned, workerVars>>

\* the sender already taken: only line 166 runs
UpdateSpent(focus, enter, t) ==
    /\ ShouldDecide(focus)
    /\ waiter = "None"
    /\ closeCmds' = closeCmds + 1
    /\ focus_requested' = FALSE
    /\ UNCHANGED <<waiter, chanVars, spawned, workerVars>>

\* one frame: the text box shows t, reports focus, Enter is pressed or not
\* (frames that send Close are counted up to MaxCloseCmds)
Update(focus, enter, t) ==
    /\ mainPc = "run_native"
    /\ ShouldDecide(focus) => closeCmds < MaxCloseCmds
    /\ text' = t
    /\ \/ UpdateHold(focus, enter, t)
       \/ UpdateTrigger(focus, enter, t)
       \/ UpdateAbandon(focus, enter, t)
       \/ UpdateSpent(focus, enter, t)
    /\ UNCHANGED <<now, mainPc, grace_period, output_device, logged>>

UpdateStep == \E focus \in BOOLEAN, enter \in BOOLEAN, t \in Texts : Update(focus, enter, t)

\* ------------------------------------------------------------------- main
\* mutant: the app is leaked instead of dropped, and its sender with it
TeardownLeaksApp ==
    /\ mainPc = "run_native"
    /\ mainPc' = "recv"
    /\ UNCHANGED <<now, grace_period, output_device, uiVars, chanVars, spawned, workerVars,
                   logged>>

\* run_native returns Ok: the window is gone and the app is dropped, and with
\* it a sender that was never taken
Teardown ==
    /\ mainPc = "run_native"
    /\ mainPc' = "recv"
    /\ waiter' = "None"
    /\ chan' = IF waiter = "Some" THEN "closed" ELSE chan
    /\ UNCHANGED <<now, grace_period, output_device, text,
                   focus_requested, closeCmds, sends, sentBy, spawned, workerVars, logged>>

\* run_native fails to create the window: `?` returns the error, no frame ran
RunNativeErr ==
    /\ mainPc = "run_native"
    /\ now = 0 /\ closeCmds = 0 /\ ~focus_requested
    /\ mainPc' = "failed"
    /\ waiter' = "None"
    /\ chan' = "closed"
    /\ UNCHANGED <<now, grace_period, output_device, text,
                   focus_requested, closeCmds, sends, sentBy, spawned, workerVars, logged>>

\* _ = recv.recv(); Ok(())
MainRecv ==
    /\ mainPc = "recv"
    /\ RecvReady
    /\ mainPc' = "exited"
    /\ UNCHANGED <<now, grace_period, output_device, uiVars, chanVars, spawned, workerVars, logged>>

\* ------------------------------------------------------------------ worker
\* where the closure continues when an if-let does not match: line 160
OnFailure == "signal"

\* one call of the closure; none of them writes a log record
WorkerStep(op, next) ==
    /\ workerPc' = next
    /\ ops' = Append(ops, op)
    /\ UNCHANGED <<now, mainPc, grace_period, output_device, uiVars, spawned, reqText, logged>>

\* client.post(..).json(..).header(..).send(): lines 97-114
W_send ==
    /\ workerPc = "send"
    /\ \/ \E r \in Responses : resp' = r /\ WorkerStep("send", "json")
       \/ resp' = resp /\ WorkerStep("send", OnFailure)
    /\ UNCHANGED <<chanVars, devices, selected, streams, streamOpen, played, sleepFrom>>

\* resp.json::<HashMap<String, String>>(): line 116
W_json ==
    /\ workerPc = "json"
    /\ WorkerStep("json", IF resp.body.json THEN "get" ELSE OnFailure)
    /\ UNCHANGED <<chanVars, resp, devices, selected, streams, streamOpen, played, sleepFrom>>

\* mutant: a missing "audioContent" is read as an empty string and decoded
W_getUnchecked ==
    /\ workerPc = "get"
    /\ WorkerStep("get", "decode")
    /\ UNCHANGED <<chanVars, resp, devices, selected, streams, streamOpen, played, sleepFrom>>

\* value.get("audioContent"): line 117
W_get ==
    /\ workerPc = "get"
    /\ WorkerStep("get", IF resp.body.audio THEN "decode" ELSE OnFailure)
    /\ UNCHANGED <<chanVars, resp, devices, selected, streams, streamOpen, played, sleepFrom>>

\* STANDARD.decode(encoded): lines 118-120
W_decode ==
    /\ workerPc = "decode"
    /\ WorkerStep("decode", IF resp.body.b64 THEN "output_devices" ELSE OnFailure)
    /\ UNCHANGED <<chanVars, resp, devices, selected, streams, streamOpen, played, sleepFrom>>

\* default_host().output_devices(): lines 122-123
W_output_devices ==
    /\ workerPc = "output_devices"
    /\ \/ \E ds \in DeviceLists : devices' = ds /\ WorkerStep("output_devices", "scan")
       \/ devices' = devices /\ WorkerStep("output_devices", OnFailure)
    /\ UNCHANGED <<chanVars, resp, selected, streams, streamOpen, played, sleepFrom>>

\* str::contains: needle occurs in hay as a contiguous run
Contains(hay, needle) ==
    \E i \in 0..(Len(hay) - Len(needle)) : SubSeq(hay, i + 1, i + Len(needle)) = needle

\* lines 125-126: the name can be read and contains config.output_device
NameMatches(name, target) == Contains(name, target)

DeviceMatches(d, target) == d.nameOk /\ NameMatches(d.name, target)

\* mutant: the loop has no break and ends up at the last matching device
ScanLastMatch(ds, i, target) ==
    IF \E k \in i..Len(ds) : DeviceMatches(ds[k], target)
      THEN CHOOSE k \in i..Len(ds) :
               /\ DeviceMatches(ds[k], target)
               /\ \A m \in (k + 1)..Len(ds) : ~DeviceMatches(ds[m], target)
      ELSE 0

\* mutant: a device whose name cannot be read ends the scan
ScanStopsAtUnreadable(ds, i, target) ==
    IF \E k \in i..Len(ds) :
           /\ DeviceMatches(ds[k], target)
           /\ \A m \in i..(k - 1) : ds[m].nameOk /\ ~DeviceMatches(ds[m], target)
      THEN CHOOSE k \in i..Len(ds) :
               /\ DeviceMatches(ds[k], target)
               /\ \A m \in i..(k - 1) : ds[m].nameOk /\ ~DeviceMatches(ds[m], target)
      ELSE 0

\* the for loop of lines 124-154: the index of the device it breaks at, 0 when
\* the iterator runs out
RECURSIVE ScanFrom(_, _, _)
ScanFrom(ds, i, target) ==
    IF i > Len(ds) THEN 0
    ELSE IF DeviceMatches(ds[i], target) THEN i
    ELSE ScanFrom(ds, i + 1, target)

W_scan ==
    /\ workerPc = "scan"
    /\ selected' = ScanFrom(devices, 1, output_device)
    /\ WorkerStep("scan", IF selected' = 0 THEN OnFailure ELSE "try_from_device")
    /\ UNCHANGED <<chanVars, resp, devices, streams, streamOpen, played, sleepFrom>>

\* OutputStream::try_from_device(&device): lines 128-129; Err goes to the break
W_try_from_device ==
    /\ workerPc = "try_from_device"
    /\ \/ /\ streams' = streams + 1
          /\ streamOpen' = TRUE
          /\ WorkerStep("try_from_device", "new_wav")
       \/ /\ UNCHANGED <<streams, streamOpen>>
          /\ WorkerStep("try_from_device", OnFailure)
    /\ UNCHANGED <<chanVars, resp, devices, selected, played, sleepFrom>>

\* mutant: the result of new_wav is unwrapped without being looked at
W_new_wavUnchecked ==
    /\ workerPc = "new_wav"
    /\ WorkerStep("new_wav", "total_duration")
    /\ UNCHANGED <<chanVars, resp, devices, selected, streams, streamOpen, played, sleepFrom>>

\* Decoder::new_wav(Cursor::new(wav)): lines 131-132; leaving the if-let of
\* line 128 drops the stream
W_new_wav ==
    /\ workerPc = "new_wav"
    /\ IF resp.body.wav
         THEN WorkerStep("new_wav", "total_duration") /\ UNCHANGED streamOpen
         ELSE WorkerStep("new_wav", OnFailure) /\ streamOpen' = FALSE
    /\ UNCHANGED <<chanVars, resp, devices, selected, streams, played, sleepFrom>>

\* decoder.total_duration(): lines 134-135
W_total_duration ==
    /\ workerPc = "total_duration"
    /\ IF resp.body.hasDur
         THEN WorkerStep("total_duration", "play_raw") /\ UNCHANGED streamOpen
         ELSE WorkerStep("total_duration", OnFailure) /\ streamOpen' = FALSE
    /\ UNCHANGED <<chanVars, resp, devices, selected, streams, played, sleepFrom>>

\* handle.play_raw(decoder.convert_samples()): lines 137-138; on Ok the sleep
\* of lines 141-146 starts
W_play_raw ==
    /\ workerPc = "play_raw"
    /\ \/ /\ played' = TRUE
          /\ sleepFrom' = now
          /\ WorkerStep("play_raw", "sleep")
          /\ UNCHANGED streamOpen
       \/ /\ UNCHANGED <<played, sleepFrom>>
          /\ streamOpen' = FALSE
          /\ WorkerStep("play_raw", OnFailure)
    /\ UNCHANGED <<chanVars, resp, devices, selected, streams>>

\* mutant: the sleep without its margin
SleepNoMargin == resp.body.dur

\* the argument of sleep: duration + Duration::from_millis(500)
SleepMs == resp.body.dur + MarginMs

\* mutant: the stream outlives the if-let (kept in a variable of the closure)
W_sleepKeepsStream ==
    /\ workerPc = "sleep"
    /\ now >= sleepFrom + SleepMs
    /\ WorkerStep("sleep", "signal")
    /\ UNCHANGED <<chanVars, resp, devices, selected, streams, streamOpen, played, sleepFrom>>

\* sleep returns once its time has passed; the if-let ends and drops the stream
W_sleep ==
    /\ workerPc = "sleep"
    /\ now >= sleepFrom + SleepMs
    /\ streamOpen' = FALSE
    /\ WorkerStep("sleep", "signal")
    /\ UNCHANGED <<chanVars, resp, devices, selected, streams, played, sleepFrom>>

\* _ = waiter.send(()): line 160
W_signal ==
    /\ workerPc = "signal"
    /\ Send("worker")
    /\ WorkerStep("signal", "done")
    /\ UNCHANGED <<resp, devices, selected, streams, streamOpen, played, sleepFrom>>

Worker ==
    \/ W_send
    \/ W_json
    \/ W_get
    \/ W_decode
    \/ W_output_devices
    \/ W_scan
    \/ W_try_from_device
    \/ W_new_wav
    \/ W_total_duration
    \/ W_play_raw
    \/ W_sleep
    \/ W_signal

\* -------------------------------------------------------------------- time
\* the clock matters until the grace period is over and while the worker sleeps
Tick ==
    /\ \/ now < grace_period
       \/ workerPc = "sleep" /\ now < sleepFrom + SleepMs
    /\ now' = now + TickMs
    /\ UNCHANGED <<mainPc, grace_period, output_device, uiVars, chanVars, spawned, workerVars,
                   logged>>

Next ==
    \/ UpdateStep
    \/ Teardown
    \/ RunNativeErr
    \/ MainRecv
    \/ Worker
    \/ Tick

Spec == Init /\ [][Next]_vars

\* The worker thread is scheduled, the clock advances, recv() returns once it
\* can, and a window that was sent ViewportCommand::Close is torn down.
FairSpec ==
    /\ Spec
    /\ WF_vars(Worker)
    /\ WF_vars(Tick)
    /\ WF_vars(MainRecv)
    /\ WF_vars(Teardown /\ closeCmds > 0)

\* ------------------------------------------------------------ worker panic
\* reqwest::blocking::Client::new() (line 97) panics when the TLS backend or
\* the resolver cannot be set up.  The closure unwinds and drops the sender it
\* owns without sending.  Spec leaves this out; PanicSpec adds it.
W_panic ==
    /\ workerPc = "send"
    /\ workerPc' = "panicked"
    /\ chan' = "closed"
    /\ UNCHANGED <<now, mainPc, grace_period, output_device, uiVars, sends, sentBy, spawned,
                   reqText, resp, devices, selected, streams, streamOpen, played,
                   sleepFrom, ops, logged>>

PanicNext ==
    \/ Next
    \/ W_panic

PanicSpec == Init /\ [][PanicNext]_vars

PanicFairSpec ==
    /\ PanicSpec
    /\ WF_vars(Worker \/ W_panic)
    /\ WF_vars(Tick)
    /\ WF_vars(MainRecv)
    /\ WF_vars(Teardown /\ closeCmds > 0)

\* ------------------------------------------------------------------ claims
\* the worker has made the call op
Did(op) == \E i \in 1..Len(ops) : ops[i] = op

\* C1: in every complete run (frames, then window teardown, then the exit
\* wait) the completion signal has been written exactly once.
C1_SignalExactlyOnce == mainPc = "exited" => sends = 1

\* C2: once the pipeline is launched, whatever stage fails, the worker
\* eventually writes the completion signal and main's wait returns.
C2_LaunchLeadsToExit ==
    (workerPc # "idle") ~> ("worker" \in sentBy /\ mainPc = "exited")

\* a stage failed (nothing was played), the worker signalled and main returned
C2_Witness ==
    /\ mainPc = "exited"
    /\ "worker" \in sentBy
    /\ Did("output_devices")
    /\ ~played

C4_AtMostOneWorker ==
    /\ spawned <= 1
    /\ spawned + Cardinality(sentBy \cap {"ui"}) <= 1

\* a second deciding frame ran after the trigger
C4_Witness == spawned = 1 /\ closeCmds = 2 /\ mainPc = "run_native"

\* C5: ViewportCommand::Close is never sent a second time.
C5_CloseAtMostOnce == closeCmds <= 1

\* C6: a frame in which the text box has focus, or the grace period is not
\* over, makes no transition: no spawn, the sender stays, nothing is sent, no
\* close is requested, and focus is requested again.
C6_HoldFrameNoTransition ==
    [][\A focus \in BOOLEAN, enter \in BOOLEAN, t \in Texts :
          (Update(focus, enter, t) /\ (focus \/ now < grace_period)) =>
              /\ spawned' = spawned
              /\ workerPc' = workerPc
              /\ waiter' = waiter
              /\ sends' = sends
              /\ chan' = chan
              /\ closeCmds' = closeCmds
              /\ focus_requested']_vars

\* the grace period is over, a frame asked for focus and nothing has moved
C6_Witness ==
    /\ mainPc = "run_native"
    /\ now >= grace_period
    /\ focus_requested
    /\ waiter = "Some"
    /\ spawned = 0 /\ sends = 0 /\ closeCmds = 0

\* C7: the first frame after the grace period without focus and without Enter
\* sends the signal from the UI thread and requests close in that step, and no
\* worker is ever spawned in that run.
C7_AbandonSignalsAtOnce ==
    [][/\ \A t \in Texts :
            (Update(FALSE, FALSE, t) /\ now >= grace_period /\ waiter = "Some") =>
                /\ sends' = sends + 1
                /\ sentBy' = {"ui"}
                /\ chan' = "sent"
                /\ closeCmds' = closeCmds + 1
                /\ spawned' = 0
       /\ "ui" \in sentBy => (spawned' = 0 /\ workerPc' = "idle")]_vars

\* abandoned, and a later deciding frame ran without spawning anything
C7_Witness == sentBy = {"ui"} /\ sends = 1 /\ closeCmds = 2 /\ spawned = 0

\* C8: audio that is no valid container fails the pipeline before any device
\* is looked up and before any output stream is opened.
C8_DecodeBeforeDevices ==
    (Did("decode") /\ ~resp.body.wav) =>
        /\ ~Did("output_devices")
        /\ ~Did("try_from_device")
        /\ streams = 0

\* C9: audio without a derivable duration is still submitted for playback and
\* the worker waits before it completes.
C9_NoDurationStillPlays ==
    (workerPc = "done" /\ Did("total_duration") /\ ~resp.body.hasDur) =>
        /\ played
        /\ Did("sleep")

\* C10: the device the scan selects has exactly the configured name, and the
\* lookup fails when no device has exactly that name.
C10_ExactNameMatch ==
    Did("scan") =>
        IF \E i \in 1..Len(devices) :
               devices[i].nameOk /\ devices[i].name = output_device
          THEN selected # 0 /\ devices[selected].name = output_device
          ELSE selected = 0

\* C11: a response with HTTP status 500, whatever its body, fails the
\* pipeline at the synthesize stage: no decode, no device lookup, no playback.
C11_Http500FailsSynthesize ==
    resp.status = 500 =>
        /\ ~Did("decode")
        /\ ~Did("output_devices")
        /\ ~played

\* C12: a parsed response without "audioContent" leads to no decode, no device
\* enumeration, no stream and no playback: the worker goes straight to the send.
C12_MissingFieldSkipsDecode ==
    (Did("get") /\ ~resp.body.audio) =>
        /\ workerPc \in {"signal", "done"}
        /\ ~Did("decode")
        /\ ~Did("output_devices")
        /\ streams = 0
        /\ ~played
        /\ SubSeq(ops, 1, 3) = <<"send", "json", "get">>
        /\ Len(ops) > 3 => ops = <<"send", "json", "get", "signal">>

\* the body parsed, had no audioContent, and the worker has signalled
C12_Witness ==
    /\ workerPc = "done"
    /\ resp.body.json
    /\ ~resp.body.audio
    /\ "worker" \in sentBy

\* C13: after play_raw accepted audio of duration d the worker sends no signal
\* before d + 500 ms have passed, so main does not return before that either.
C13_SignalAfterPostRoll ==
    /\ workerPc = "sleep" => ("worker" \notin sentBy /\ mainPc # "exited")
    /\ (played /\ (workerPc \in {"signal", "done"} \/ "worker" \in sentBy
                   \/ mainPc = "exited")) =>
           now >= sleepFrom + resp.body.dur + MarginMs

\* audio of one second was played, and main returned after the wait
C13_Witness ==
    /\ played
    /\ resp.body.dur = 1000
    /\ mainPc = "exited"
    /\ now >= sleepFrom + 1500

\* the calls of the closure in the order of the nested if-lets
StageOrder ==
    <<"send", "json", "get", "decode", "output_devices", "scan",
      "try_from_device", "new_wav", "total_duration", "play_raw", "sleep">>

\* C14: audio is submitted only if every earlier stage succeeded; a failed
\* stage ends the run: no later stage runs, none is retried, nothing plays.
C14_NeverPartiallyApplied ==
    /\ \A i \in 1..Len(ops) :
           \/ i = Len(ops) /\ ops[i] = "signal"
           \/ i <= Len(StageOrder) /\ ops[i] = StageOrder[i]
    /\ Did("json") => resp.status # 0
    /\ Did("get") => resp.body.json
    /\ Did("decode") => resp.body.audio
    /\ Did("output_devices") => resp.body.b64
    /\ Did("try_from_device") =>
           selected # 0 /\ DeviceMatches(devices[selected], output_device)
    /\ Did("new_wav") => streams = 1
    /\ Did("total_duration") => resp.body.wav
    /\ Did("play_raw") => resp.body.hasDur
    /\ Did("sleep") => played
    /\ played => /\ resp.body.json /\ resp.body.audio /\ resp.body.b64
                 /\ resp.body.wav /\ selected # 0 /\ streams = 1
    /\ (workerPc \in {"signal", "done"} /\ ~Did("sleep")) => ~played

\* the stream was opened, the container did not parse, nothing was played
C14_Witness ==
    /\ workerPc = "done"
    /\ streams = 1
    /\ Did("new_wav")
    /\ ~resp.body.wav
    /\ ~played

\* the pipeline stage a call of the closure belongs to
StageOf(op) ==
    CASE op \in {"send", "json"} -> "Synthesize"
      [] op = "get" -> "ExtractAudio"
      [] op \in {"decode", "new_wav", "total_duration"} -> "Decode"
      [] op \in {"output_devices", "scan"} -> "DeviceLookup"
      [] OTHER -> "Playback"

\* the worker is done and its last call before the send did not succeed
FailedRun ==
    /\ workerPc = "done"
    /\ ~played
    /\ Len(ops) >= 2
    /\ ops[Len(ops) - 1] # "total_duration"

\* C15: a run that failed leaves a record of the stage it failed at, so runs
\* that fail at different stages end in distinguishable outcomes.
C15_FailureStageRecorded ==
    FailedRun => (logged # <<>> /\ logged[Len(logged)] = StageOf(ops[Len(ops) - 1]))

\* C16: on every exit path of the worker the stream it opened is released by
\* the time it sends the signal; no stream is open when main returns.
C16_StreamReleasedBeforeSignal ==
    /\ workerPc \in {"idle", "signal", "done"} => ~streamOpen
    /\ "worker" \in sentBy => ~streamOpen
    /\ mainPc \in {"exited", "failed"} => ~streamOpen

\* a stream was opened, audio played, and the worker has signalled
C16_Witness == workerPc = "done" /\ streams = 1 /\ played /\ ~streamOpen

\* the number of times the worker made the call op
Count(op) == Cardinality({i \in 1..Len(ops) : ops[i] = op})

\* C17: at most one stream is opened per run: the scan stops at the first
\* device, in enumeration order, that matches; no other device is tried, also
\* when several match or when opening the first match fails.
C17_FirstMatchOnly ==
    /\ streams <= 1
    /\ Count("try_from_device") <= 1
    /\ Count("scan") <= 1
    /\ (Did("scan") /\ selected # 0) =>
           /\ DeviceMatches(devices[selected], output_device)
           /\ \A j \in 1..(selected - 1) : ~DeviceMatches(devices[j], output_device)

\* two devices match, opening the first failed, and the worker is done
C17_Witness ==
    /\ workerPc = "done"
    /\ Len(devices) = 2
    /\ DeviceMatches(devices[1], output_device)
    /\ DeviceMatches(devices[2], output_device)
    /\ selected = 1
    /\ Did("try_from_device")
    /\ streams = 0

\* C18: a device whose name cannot be read is skipped: a matching device later
\* in the enumeration is still selected.
C18_UnreadableNameSkipped ==
    Did("scan") =>
        /\ (\E i \in 1..Len(devices) :
                devices[i].nameOk /\ Contains(devices[i].name, output_device))
               => selected # 0
        /\ selected # 0 =>
               /\ devices[selected].nameOk
               /\ Contains(devices[selected].name, output_device)

\* the first device has no readable name and the second one was selected
C18_Witness ==
    /\ Did("scan")
    /\ Len(devices) = 2
    /\ ~devices[1].nameOk
    /\ selected = 2
    /\ streams = 1

\* C19: the text of the request is the content of the text box in the frame
\* that saw Enter; what later frames do to the text never changes it.
C19_RequestTextIsSnapshot ==
    [][/\ \A t \in Texts :
            (Update(FALSE, TRUE, t) /\ now >= grace_period /\ waiter = "Some") =>
                (reqText' = t /\ reqText' = text' /\ workerPc' = "send")
       /\ workerPc # "idle" => reqText' = reqText]_vars

\* the request went out with "Hello" after the text box had been emptied
C19_Witness ==
    /\ spawned = 1
    /\ reqText = "Hello"
    /\ text = ""
    /\ Did("send")

\* C20: main's recv() returns also when nobody sends: a sender dropped with
\* the app (window torn down with waiter still Some) or with a worker that
\* ended before line 160 closes the channel, and main returns.
C20_WaitReturnsWithoutSignal ==
    /\ (mainPc = "recv") ~> (mainPc = "exited")
    /\ []((mainPc = "recv" /\ sends = 0 /\ workerPc \in {"idle", "panicked"})
             => chan = "closed")

\* main returned although send was never called: the app held the sender
C20_Witness ==
    /\ mainPc = "exited"
    /\ sends = 0
    /\ chan = "closed"
    /\ spawned = 0
    /\ focus_requested

=============================================================================
